---------------------------- MODULE Spec2Model ----------------------------
(***************************************************************************)
(* A model of updateHosts.py: the regular expressions of patterns(), the   *)
(* line classifier get_bad_lines, the repair clean_data, the domain        *)
(* counter (calculate_nud, read_nud, write_nud), restore_org_le and the    *)
(* control flow of main.                                                   *)
(*                                                                         *)
(* A line is a TLA+ string, a Document a sequence of lines.  A regular     *)
(* expression is a tree of records; Match(r, s, i) is the set of positions *)
(* at which a match of r that starts at position i of s can end, which is  *)
(* what Python's backtracking matcher explores (the patterns use no        *)
(* back-reference, atomic group or possessive quantifier).                 *)
(***************************************************************************)
EXTENDS Integers, Sequences, FiniteSets, TLC

(***************************************************************************)
(* Characters                                                              *)
(***************************************************************************)
LF == "\n"
CR == "\r"
FF == "\f"
VT == ""
TAB == "\t"
SPACE == " "

At(s, i) == SubSeq(s, i, i)

CharsOf(s) == {At(s, i) : i \in 1..Len(s)}

Lower == CharsOf("abcdefghijklmnopqrstuvwxyz")
Digit == CharsOf("0123456789")

(***************************************************************************)
(* Regular expressions as Python's re module reads them (no flags).        *)
(***************************************************************************)
Inf == -1

Chr(S) == [t |-> "chr", cs |-> S]
NotChr(S) == [t |-> "not", cs |-> S]
Dot == [t |-> "dot"]
Cat(rs) == [t |-> "cat", rs |-> rs]
Alt(rs) == [t |-> "alt", rs |-> rs]
Rep(r, m, n) == [t |-> "rep", r |-> r, m |-> m, n |-> n]
Opt(r) == Rep(r, 0, 1)
NLA(r) == [t |-> "nla", r |-> r]
NLB(S) == [t |-> "nlb", cs |-> S]
Bol == [t |-> "bol"]
Eol == [t |-> "eol"]
Lit(s) == Cat([i \in 1..Len(s) |-> Chr({At(s, i)})])

RECURSIVE Match(_, _, _)
RECURSIVE MatchCat(_, _, _, _)
RECURSIVE MatchRep(_, _, _, _, _)

\* the positions a match of r starting at i may end at
Match(r, s, i) ==
  CASE r.t = "chr" -> IF i <= Len(s) /\ At(s, i) \in r.cs THEN {i + 1} ELSE {}
    [] r.t = "not" -> IF i <= Len(s) /\ At(s, i) \notin r.cs THEN {i + 1} ELSE {}
    [] r.t = "dot" -> IF i <= Len(s) /\ At(s, i) # LF THEN {i + 1} ELSE {}
    [] r.t = "cat" -> MatchCat(r.rs, 1, s, {i})
    [] r.t = "alt" -> UNION {Match(r.rs[k], s, i) : k \in 1..Len(r.rs)}
    [] r.t = "rep" -> MatchRep(r, s, {i}, 0, {})
    [] r.t = "nla" -> IF Match(r.r, s, i) = {} THEN {i} ELSE {}
    [] r.t = "nlb" -> IF i > 1 /\ At(s, i - 1) \in r.cs THEN {} ELSE {i}
    [] r.t = "bol" -> IF i = 1 THEN {i} ELSE {}
    [] r.t = "eol" -> IF i = Len(s) + 1 \/ (i = Len(s) /\ At(s, i) = LF)
                      THEN {i} ELSE {}

MatchCat(rs, k, s, P) ==
  IF k > Len(rs) \/ P = {} THEN P
  ELSE MatchCat(rs, k + 1, s, UNION {Match(rs[k], s, p) : p \in P})

\* P: the positions reached after exactly k repetitions of r.r
MatchRep(r, s, P, k, acc) ==
  LET acc2 == IF k >= r.m THEN acc \cup P ELSE acc
  IN  IF P = {} \/ k = r.n THEN acc2
      ELSE MatchRep(r, s, UNION {Match(r.r, s, p) : p \in P}, k + 1, acc2)

\* prog.search(s): a match starting anywhere
Search(r, s) == \E i \in 1..(Len(s) + 1) : Match(r, s, i) # {}

\* prog.fullmatch(s): a match of the whole string
FullMatch(r, s) == (Len(s) + 1) \in Match(r, s, 1)

(***************************************************************************)
(* patterns(): the dictionary of regular expressions                       *)
(***************************************************************************)
\* [a-z0-9-]
LDH == Lower \cup Digit \cup {"-"}
\* [a-z0-9-_]
LDHU == LDH \cup {"_"}

\* (?!-)[...]{m,63}(?<!-)
Label(cs, m) == Cat(<<NLA(Chr({"-"})), Rep(Chr(cs), m, 63), NLB({"-"})>>)

\* (?![^ ]{256,})
NotTooLong == NLA(Rep(NotChr({SPACE}), 256, Inf))

\* (?![0-9]+( |\t|$))(?!-)[a-z0-9-]{2,63}(?<!-)
FinalLabel ==
  Cat(<<NLA(Cat(<<Rep(Chr(Digit), 1, Inf),
                  Alt(<<Chr({SPACE}), Chr({TAB}), Eol>>)>>)),
        Label(LDH, 2)>>)

\* valid domain for a hosts file
domain ==
  Cat(<<NotTooLong,
        Rep(Cat(<<Label(LDH, 1), Chr({"."})>>), 1, 126),
        FinalLabel>>)

\* domain2 with {0,126} where it has {1,126}
domain2_loose ==
  Cat(<<NotTooLong,
        NLA(Rep(Cat(<<Rep(Dot, 1, Inf), Chr({"."})>>), 127, Inf)),
        Rep(Cat(<<Label(LDHU, 1), Chr({"."})>>), 0, 125),
        Rep(Cat(<<Label(LDH, 1), Chr({"."})>>), 0, 126),
        FinalLabel>>)

\* valid subdomains with '_'
domain2 ==
  Cat(<<NotTooLong,
        NLA(Rep(Cat(<<Rep(Dot, 1, Inf), Chr({"."})>>), 127, Inf)),
        Rep(Cat(<<Label(LDHU, 1), Chr({"."})>>), 0, 125),
        Rep(Cat(<<Label(LDH, 1), Chr({"."})>>), 1, 126),
        FinalLabel>>)

\* 25[0-5]|2[0-4][0-9]|[01]?[0-9][0-9]?
Octet ==
  Alt(<<Cat(<<Lit("25"), Chr(CharsOf("012345"))>>),
        Cat(<<Lit("2"), Chr(CharsOf("01234")), Chr(Digit)>>),
        Cat(<<Opt(Chr(CharsOf("01"))), Chr(Digit), Opt(Chr(Digit))>>)>>)

\* valid ipv4 address
ipv4 == Cat(<<Rep(Cat(<<Octet, Chr({"."})>>), 3, 3), Octet>>)

\* valid comment: [ \t]*#.*
comment ==
  Cat(<<Rep(Chr({SPACE, TAB}), 0, Inf), Chr({"#"}), Rep(Dot, 0, Inf)>>)

\* the literal lines the xhl pattern excludes by a lookahead, in its order
PlatformLines ==
  <<"127.0.0.1 localhost", "127.0.0.1 localhost.localdomain",
    "127.0.0.1 local", "255.255.255.255 broadcasthost", "::1 localhost",
    "::1 ip6-localhost", "::1 ip6-loopback", "fe80::1%lo0 localhost",
    "ff00::0 ip6-localnet", "ff00::0 ip6-mcastprefix",
    "ff02::1 ip6-allnodes", "ff02::2 ip6-allrouters", "ff02::3 ip6-allhosts">>

\* .* where xhl has .+
XhlRestStar == Rep(Dot, 0, Inf)

\* the tail of the second alternative of xhl: .+
XhlRest == Rep(Dot, 1, Inf)

\* non-valid hosts line
xhl ==
  Cat(<<Bol,
        Alt(<<Cat(<<Rep(Dot, 0, Inf), Chr({LF, CR, FF, VT}), Rep(Dot, 1, Inf)>>),
              Cat(<<NLA(comment),
                    NLA(Cat(<<Lit("0.0.0.0 "), Alt(<<domain, ipv4>>),
                              Opt(comment)>>))>>
                  \o [k \in 1..Len(PlatformLines) |-> NLA(Lit(PlatformLines[k]))]
                  \o <<XhlRest>>)>>),
        Eol>>)

\* accepted hosts line: keep subdomains with '_'
ahl ==
  Cat(<<Bol, Lit("0.0.0.0 "), Alt(<<domain2, ipv4>>), Opt(comment), Eol>>)

\* hosts line: ^0\.0\.0\.0 (?!0\.0\.0\.0$)(?:[^#]+\.)*[^#]+.*$
hl ==
  Cat(<<Bol, Lit("0.0.0.0 "), NLA(Cat(<<Lit("0.0.0.0"), Eol>>)),
        Rep(Cat(<<Rep(NotChr({"#"}), 1, Inf), Chr({"."})>>), 0, Inf),
        Rep(NotChr({"#"}), 1, Inf), Rep(Dot, 0, Inf), Eol>>)

\* the group of nud: ([0-9,]{3,7})
NudGroup == Rep(Chr(Digit \cup {","}), 3, 7)

NudPrefix == "# Number of unique domains: "

\* number of unique domains
nud == Cat(<<Bol, Lit(NudPrefix), NudGroup, Eol>>)

\* get_hosts_date: '^# Date: .+$'
DateProg == Cat(<<Bol, Lit("# Date: "), Rep(Dot, 1, Inf), Eol>>)

\* main: r'^y(es)?$'
YesProg == Cat(<<Bol, Lit("y"), Opt(Lit("es")), Eol>>)

patterns(pattern) ==
  CASE pattern = "d" -> domain
    [] pattern = "d2" -> domain2
    [] pattern = "ip4" -> ipv4
    [] pattern = "c" -> comment
    [] pattern = "xhl" -> xhl
    [] pattern = "ahl" -> ahl
    [] pattern = "hl" -> hl
    [] pattern = "nud" -> nud

\* re.compile of a pattern of patterns() or of get_hosts_date
compile(p) == IF p = "date" THEN DateProg ELSE patterns(p)

None == "None"

Range(f) == {f[i] : i \in DOMAIN f}

(***************************************************************************)
(* The inputs the operations are exercised on                              *)
(***************************************************************************)
Localhost4 == "127.0.0.1 localhost"
Localdomain4 == "127.0.0.1 localhost.localdomain"
Localhost6 == "::1 localhost"
Restored4 ==
  "127.0.0.1 localhost localhost.localdomain localhost4 localhost4.localdomain4"
Restored6 ==
  "::1 localhost localhost.localdomain localhost6 localhost6.localdomain6"

\* longest Document given to get_bad_lines / clean_data
MaxDocLen == 3

\* lines given to get_bad_lines / clean_data
LinePool ==
  {"", "# c", "0.0.0.0 a.io", "0.0.0.0 s_b.a.io", "0.0.0.0 bad-8",
   "0.0.0.0 a.io extra", "127.0.0.1 localhost", "127.0.0.1 localhost extra",
   "0.0.0.0 a.io #c\rx", "# c\nx", "a\n\nb", "0.0.0.0 a.io" \o VT \o "b",
   "# c" \o FF}

\* longest Document given to restore_org_le
MaxRestoreLen == 4

\* lines given to restore_org_le
RestorePool == {Localhost4, Localdomain4, Localhost6, "0.0.0.0 a.io"}

\* longest Document given to read_nud / write_nud
MaxNudLen == 2

\* lines given to read_nud / write_nud
NudPool ==
  {"# Number of unique domains: 123", "# Number of unique domains: 12,345",
   "# Number of unique domains: ,,,", "# Number of unique domains: 12",
   "0.0.0.0 a.io"}

\* most labels of a name given to the domain patterns
MaxLabels == 3

\* labels of the names given to the domain patterns
LabelPool == {"my_host", "_x", "a-b", "a", "-a_", "a_-", "911", "io", "com", "c"}

\* counts given to write_nud
NudInputs == {0, 5, 99, 100, 999, 1000, 123456, 999999, 1000000}

\* the lines of the file main reads, each present or not
MainTemplate ==
  <<"# Date: 11 March 2024", "# Number of unique domains: 123",
    Localhost4, Localdomain4, Localhost6, "# site", "0.0.0.0 a.io",
    "0.0.0.0 bad-8", "">>

\* what /etc/hosts may hold when main starts, if the file exists
SystemHosts ==
  {<<Localhost4>>, <<"# Date: 10 March 2024", Localhost4>>,
   <<"# Date: 11 March 2024", Localhost4>>, <<"# Date: soon", Localhost4>>}

\* what the operator may type at the prompt
Answers == {"y", "yes", "Y", "YES", "Yes", "n", "", "yess"}

\* args.allow: a list of sites, or <<>> for None (nargs='+' gives no empty list)
Allows == {<<>>, <<"site">>}

KnownLines ==
  LinePool \cup RestorePool \cup NudPool \cup Range(MainTemplate)
    \cup UNION {Range(h) : h \in SystemHosts}

\* prog = re.compile(...), and prog.search(l) for each line of the pools
SearchTable ==
  [p \in {"xhl", "ahl", "hl", "nud", "date"} |->
     [l \in KnownLines |-> Search(compile(p), l)]]

\* prog.search(line) for prog = re.compile of pattern p
search(p, line) ==
  IF line \in KnownLines THEN SearchTable[p][line] ELSE Search(compile(p), line)

(***************************************************************************)
(* Sequence helpers (Python list operations)                               *)
(***************************************************************************)
\* del d[i], i counted from 0
Del(d, i) == SubSeq(d, 1, i) \o SubSeq(d, i + 2, Len(d))

\* d.index(x), counted from 0; x is in d
Index(d, x) == (CHOOSE i \in DOMAIN d : d[i] = x /\ \A k \in 1..(i - 1) : d[k] # x) - 1

\* whether next((s for s in d if prog.search(s)), None) is not None, prog = patterns(p)
Found(p, d) == \E i \in DOMAIN d : search(p, d[i])

\* the index, counted from 0, of the first line of d that prog matches
First(p, d) ==
  (CHOOSE i \in DOMAIN d :
     search(p, d[i]) /\ \A k \in 1..(i - 1) : ~search(p, d[k])) - 1

\* the sequences of at most n elements of pool
Docs(pool, n) == UNION {[1..k -> pool] : k \in 0..n}

(***************************************************************************)
(* get_bad_lines and clean_data                                            *)
(***************************************************************************)
\* enumerate(data)
Enumerate(d) == [i \in 1..Len(d) |-> <<i - 1, d[i]>>]

\* [(i, line) for i, line in enumerate(data) if prog.search(line)]
get_bad_lines(d) ==
  SelectSeq(Enumerate(d), LAMBDA rec : search("xhl", rec[2]))

RECURSIVE CleanLoop(_, _, _, _)
\* for j in reversed(range(len(bad_data))): j is here the number of records left
CleanLoop(d, bad, n, j) ==
  IF j = 0 THEN [data |-> d, bad_data |-> bad, nr |-> n, exc |-> "none"]
  ELSE LET i == bad[j][1]
           line == bad[j][2]
       IN  IF ~search("ahl", line)
           THEN IF i >= Len(d)
                THEN [data |-> d, bad_data |-> bad, nr |-> n, exc |-> "IndexError"]
                ELSE CleanLoop(Del(d, i), Del(bad, j - 1), n + 1, j - 1)
           ELSE CleanLoop(d, bad, n, j - 1)

RECURSIVE CleanLoopForward(_, _, _, _)
\* the same loop over range(len(bad_data)), in ascending order
CleanLoopForward(d, bad, n, j) ==
  IF j > Len(bad) THEN [data |-> d, bad_data |-> bad, nr |-> n, exc |-> "none"]
  ELSE LET i == bad[j][1]
           line == bad[j][2]
       IN  IF ~search("ahl", line)
           THEN IF i >= Len(d)
                THEN [data |-> d, bad_data |-> bad, nr |-> n, exc |-> "IndexError"]
                ELSE CleanLoopForward(Del(d, i), Del(bad, j - 1), n + 1, j)
           ELSE CleanLoopForward(d, bad, n, j + 1)

clean_data_forward(d, bad) == CleanLoopForward(d, bad, 0, 1)

clean_data(d, bad) == CleanLoop(d, bad, 0, Len(bad))

(***************************************************************************)
(* restore_org_le                                                          *)
(***************************************************************************)
\* the index of ::1 localhost taken before the remove
restore_org_le_stale(d) ==
  IF Localhost4 \notin Range(d) \/ Localdomain4 \notin Range(d)
     \/ Localhost6 \notin Range(d)
  THEN [data |-> d, exc |-> "ValueError"]
  ELSE LET i == Index(d, Localhost4)
           k == Index(d, Localhost6)
           d1 == [d EXCEPT ![i + 1] = Restored4]
           d2 == Del(d1, Index(d1, Localdomain4))
       IN  IF k >= Len(d2) THEN [data |-> d2, exc |-> "IndexError"]
           ELSE [data |-> [d2 EXCEPT ![k + 1] = Restored6], exc |-> "none"]

restore_org_le(d) ==
  IF Localhost4 \notin Range(d) THEN [data |-> d, exc |-> "ValueError"]
  ELSE LET d1 == [d EXCEPT ![Index(d, Localhost4) + 1] = Restored4]
       IN  IF Localdomain4 \notin Range(d1)
           THEN [data |-> d1, exc |-> "ValueError"]
           ELSE LET d2 == Del(d1, Index(d1, Localdomain4))
                IN  IF Localhost6 \notin Range(d2)
                    THEN [data |-> d2, exc |-> "ValueError"]
                    ELSE [data |-> [d2 EXCEPT ![Index(d2, Localhost6) + 1] = Restored6],
                          exc |-> "none"]

(***************************************************************************)
(* The domain counter                                                      *)
(***************************************************************************)
\* sum(1 for line in data if prog.search(line))
calculate_nud(d) ==
  Cardinality({i \in DOMAIN d : search("hl", d[i])})

DigitOf(k) == At("0123456789", k + 1)

ValueOf(c) == CHOOSE k \in 0..9 : DigitOf(k) = c

RECURSIVE Dec(_)
\* the decimal digits of n >= 0
Dec(n) == IF n < 10 THEN DigitOf(n) ELSE Dec(n \div 10) \o DigitOf(n % 10)

RECURSIVE Grouped(_)
\* f"{n:,.0f}" of an integer n >= 0
Grouped(n) ==
  IF n < 1000 THEN Dec(n)
  ELSE Grouped(n \div 1000) \o "," \o DigitOf((n \div 100) % 10)
         \o DigitOf((n \div 10) % 10) \o DigitOf(n % 10)

RECURSIVE StripCommas(_)
\* re.sub(",", "", s)
StripCommas(s) ==
  IF s = "" THEN ""
  ELSE (IF At(s, 1) = "," THEN "" ELSE At(s, 1)) \o StripCommas(SubSeq(s, 2, Len(s)))

RECURSIVE IntOf(_, _)
\* int(s) of a string of digits, most significant first
IntOf(s, acc) ==
  IF s = "" THEN acc ELSE IntOf(SubSeq(s, 2, Len(s)), 10 * acc + ValueOf(At(s, 1)))

\* prog.search(line).group(1) for prog = nud, line a match of it
NudGroupOf(line) ==
  LET ends == {e \in Match(Cat(<<Bol, Lit(NudPrefix), NudGroup>>), line, 1) :
                 Match(Eol, line, e) # {}}
      e == CHOOSE x \in ends : \A y \in ends : y <= x
  IN  SubSeq(line, Len(NudPrefix) + 1, e - 1)

read_nud(d) ==
  IF ~Found("nud", d)
  THEN \* line is None: nud = None, then line[2:] raises
       [nud |-> None, line |-> None, exc |-> "TypeError"]
  ELSE LET line == d[First("nud", d) + 1]
           digits == StripCommas(NudGroupOf(line))
       IN  IF digits = ""
           THEN \* int('')
                [nud |-> None, line |-> None, exc |-> "ValueError"]
           ELSE [nud |-> IntOf(digits, 0),
                 line |-> SubSeq(line, 3, Len(line)), exc |-> "none"]

\* the pattern write_nud substitutes: ' [0-9,]{3,7}$'
NudField == Cat(<<Chr({SPACE}), NudGroup, Eol>>)

\* re.sub(pattern, repl, s) for a pattern that ends in $: the leftmost match ends
\* where $ holds, so no second match follows it
SubAtEnd(pattern, repl, s) ==
  IF ~Search(pattern, s) THEN s
  ELSE LET p == CHOOSE i \in 1..(Len(s) + 1) :
                  /\ Match(pattern, s, i) # {}
                  /\ \A k \in 1..(i - 1) : Match(pattern, s, k) = {}
           ends == Match(pattern, s, p)
           e == CHOOSE x \in ends : \A y \in ends : y <= x
       IN  SubSeq(s, 1, p - 1) \o repl \o SubSeq(s, e, Len(s))

write_nud(d, n) ==
  IF ~Found("nud", d) THEN [data |-> d, exc |-> "ValueError"]
  ELSE LET i == First("nud", d)
       IN  [data |-> [d EXCEPT ![i + 1] =
                        SubAtEnd(NudField, SPACE \o Grouped(n), d[i + 1])],
            exc |-> "none"]

(***************************************************************************)
(* get_hosts_date, allow_sites and the prompt                              *)
(***************************************************************************)
\* the date lines of the pools that dateutil parses; on the others
\* dparser.parse raises ParserError
Parsable == {"# Date: 11 March 2024", "# Date: 10 March 2024"}

\* dparser.parse(pdate, fuzzy=True).strftime('%y%m%d') as the number the six
\* digits spell (the strings compare the same way)
ParseDate(pdate) ==
  CASE pdate = "# Date: 11 March 2024" -> 240311
    [] pdate = "# Date: 10 March 2024" -> 240310

get_hosts_date(d) ==
  IF ~Found("date", d) THEN [fdate |-> None, pdate |-> None, exc |-> "ValueError"]
  ELSE LET pdate == d[First("date", d) + 1]
       IN  IF pdate \notin Parsable
           THEN [fdate |-> None, pdate |-> pdate, exc |-> "ParserError"]
           ELSE [fdate |-> ParseDate(pdate), pdate |-> pdate, exc |-> "none"]

RECURSIVE allow_sites(_, _)
\* for site in sites: remove '# ' + site and the lines up to the next blank line
allow_sites(d, sites) ==
  IF sites = <<>> THEN [data |-> d, exc |-> "none"]
  ELSE LET s == "# " \o Head(sites)
       IN  IF s \notin Range(d) THEN allow_sites(d, Tail(sites))
           ELSE LET i == Index(d, s)
                    blanks == {j \in (i + 1)..(Len(d) - 1) : d[j + 1] = ""}
                IN  IF blanks = {}
                    THEN \* while data[j] != '' runs off the list
                         [data |-> d, exc |-> "IndexError"]
                    ELSE LET j == CHOOSE x \in blanks : \A y \in blanks : x <= y
                         IN  allow_sites(SubSeq(d, 1, i) \o SubSeq(d, j + 2, Len(d)),
                                         Tail(sites))

UpperCase == "ABCDEFGHIJKLMNOPQRSTUVWXYZ"
LowerCase == "abcdefghijklmnopqrstuvwxyz"

RECURSIVE lower(_)
\* str.lower()
lower(s) ==
  IF s = "" THEN ""
  ELSE LET c == At(s, 1)
           k == {x \in 1..26 : At(UpperCase, x) = c}
       IN  (IF k = {} THEN c ELSE At(LowerCase, CHOOSE x \in k : TRUE))
             \o lower(SubSeq(s, 2, Len(s)))

\* any answer is taken for a yes
ConfirmedAlways(answer) == TRUE

\* re.search(r'^y(es)?$', input(...).lower())
Confirmed(answer) == Search(YesProg, lower(answer))

VARIABLES pc, data, input, bad_data, nr, ret, exc, arg, log, hdate, nc, answer, files

vars == <<pc, data, input, bad_data, nr, ret, exc, arg, log, hdate, nc, answer, files>>

\* the variables of main that a call of a single function leaves alone
mainvars == <<hdate, nc, answer, files>>

NoMain == hdate = None /\ nc = None /\ answer = None /\ files = <<>>

(***************************************************************************)
(* get_bad_lines then clean_data on a Document, as the unit tests call     *)
(* them                                                                    *)
(***************************************************************************)
InitClean ==
  /\ pc = "start"
  /\ data \in Docs(LinePool, MaxDocLen)
  /\ input = data
  /\ bad_data = <<>>
  /\ nr = 0
  /\ ret = None
  /\ exc = "none"
  /\ arg = None
  /\ log = <<>>
  /\ NoMain

GetBadLinesCall ==
  /\ pc = "start"
  /\ bad_data' = get_bad_lines(data)
  /\ pc' = "checked"
  /\ log' = Append(log, "get_bad_lines")
  /\ UNCHANGED <<data, input, nr, ret, exc, arg, mainvars>>

CleanDataCall ==
  /\ pc = "checked"
  /\ LET r == clean_data(data, bad_data)
     IN  /\ data' = r.data
         /\ bad_data' = r.bad_data
         /\ nr' = r.nr
         /\ exc' = r.exc
         /\ pc' = IF r.exc = "none" THEN "cleaned" ELSE "raised"
  /\ log' = Append(log, "clean_data")
  /\ UNCHANGED <<input, ret, arg, mainvars>>

NextClean == GetBadLinesCall \/ CleanDataCall

SpecClean == InitClean /\ [][NextClean]_vars

\* the lines clean_data is to keep: a filter over the snapshot
Retained(line) == ~(search("xhl", line) /\ ~search("ahl", line))

ControlChars == {LF, CR, FF, VT}

\* C1: clean_data(D, get_bad_lines(D)) leaves D equal to the original with
\* exactly the flagged lines that fail ahl removed (the result of a filter
\* over the snapshot), the length shrinks by the number of lines removed, the
\* flagged list keeps exactly the flagged lines that match ahl, and no
\* deletion fails.
C1_CleanIsFilter ==
  /\ pc # "raised"
  /\ pc = "cleaned" =>
       /\ data = SelectSeq(input, Retained)
       /\ Len(data) = Len(input) - nr
       /\ bad_data = SelectSeq(get_bad_lines(input),
                               LAMBDA rec : search("ahl", rec[2]))

C1_Witness ==
  /\ pc = "cleaned"
  /\ nr >= 2
  /\ Len(bad_data) >= 1
  /\ ~Retained(input[1])
  /\ Len(data) = 1

\* C2: every non-empty line that as a whole line matches neither ahl nor an
\* enumerated platform line nor a comment is deleted by get_bad_lines +
\* clean_data.
C2_NonEntriesDeleted ==
  pc = "cleaned" =>
    \A i \in DOMAIN input :
      (/\ input[i] # ""
       /\ ~search("ahl", input[i])
       /\ input[i] \notin Range(PlatformLines)
       /\ ~FullMatch(patterns("c"), input[i]))
      => input[i] \notin Range(data)

\* C3: every line that contains a carriage return, form feed, vertical tab or
\* newline is flagged by get_bad_lines, and none is left after clean_data.
C3_ControlCharsRejected ==
  /\ pc = "checked" =>
       \A i \in DOMAIN data :
         CharsOf(data[i]) \cap ControlChars # {}
           => <<i - 1, data[i]>> \in Range(bad_data)
  /\ pc = "cleaned" =>
       \A i \in DOMAIN data : CharsOf(data[i]) \cap ControlChars = {}

\* C8 as stated: get_bad_lines flags every blank line, with a record (index, '').
C8_BlankFlagged ==
  pc = "checked" =>
    \A i \in DOMAIN data : data[i] = "" => <<i - 1, "">> \in Range(bad_data)

\* C8 as amended: get_bad_lines flags no blank line: no record (index, '') is
\* returned for any blank line of the Document.
C8_BlankNeverFlagged ==
  pc = "checked" =>
    /\ \A i \in DOMAIN data : data[i] = "" => <<i - 1, "">> \notin Range(bad_data)
    /\ \A j \in DOMAIN bad_data : bad_data[j][2] # ""

C8_Witness ==
  /\ pc = "checked"
  /\ "" \in Range(data)
  /\ bad_data # <<>>

(***************************************************************************)
(* restore_org_le on a Document                                            *)
(***************************************************************************)
InitRestore ==
  /\ pc = "start"
  /\ data \in Docs(RestorePool, MaxRestoreLen)
  /\ input = data
  /\ bad_data = <<>>
  /\ nr = 0
  /\ ret = None
  /\ exc = "none"
  /\ arg = None
  /\ log = <<>>
  /\ NoMain

RestoreOrgLeCall ==
  /\ pc = "start"
  /\ LET r == restore_org_le(data)
     IN  /\ data' = r.data
         /\ exc' = r.exc
         /\ pc' = IF r.exc = "none" THEN "restored" ELSE "raised"
  /\ log' = Append(log, "restore_org_le")
  /\ UNCHANGED <<input, bad_data, nr, ret, arg, mainvars>>

NextRestore == RestoreOrgLeCall

SpecRestore == InitRestore /\ [][NextRestore]_vars

\* the first position of x in d, counted from 1
FirstPos(d, x) == CHOOSE i \in DOMAIN d : d[i] = x /\ \A k \in 1..(i - 1) : d[k] # x

\* d with its first localhost lines rewritten and its first localdomain line removed
ExpectedRestore(d) ==
  LET i == FirstPos(d, Localhost4)
      j == FirstPos(d, Localdomain4)
      k == FirstPos(d, Localhost6)
      e == [x \in DOMAIN d |->
              IF x = i THEN Restored4 ELSE IF x = k THEN Restored6 ELSE d[x]]
  IN  SubSeq(e, 1, j - 1) \o SubSeq(e, j + 1, Len(e))

\* C4: on a Document that holds the three loopback lines, restore_org_le
\* rewrites the first '127.0.0.1 localhost' and the first '::1 localhost' line
\* in place, removes the first '127.0.0.1 localhost.localdomain' line and
\* changes nothing else; the length decreases by exactly 1.
C4_RestoreFrame ==
  (pc # "start" /\ {Localhost4, Localdomain4, Localhost6} \subseteq Range(input))
    => /\ exc = "none"
       /\ data = ExpectedRestore(input)
       /\ Len(data) = Len(input) - 1

C4_Witness ==
  /\ pc = "restored"
  /\ Len(input) = 4
  /\ FirstPos(input, Localdomain4) < FirstPos(input, Localhost6)
  /\ "0.0.0.0 a.io" \in Range(data)
  /\ Restored6 \in Range(data)

(***************************************************************************)
(* write_nud and read_nud on a Document                                    *)
(***************************************************************************)
InitNud ==
  /\ pc = "start"
  /\ data \in Docs(NudPool, MaxNudLen)
  /\ input = data
  /\ bad_data = <<>>
  /\ nr = 0
  /\ ret = None
  /\ exc = "none"
  /\ arg = None
  /\ log = <<>>
  /\ NoMain

WriteNudCall ==
  /\ pc = "start"
  /\ \E n \in NudInputs :
       LET r == write_nud(data, n)
       IN  /\ arg' = n
           /\ data' = r.data
           /\ exc' = r.exc
           /\ pc' = IF r.exc = "none" THEN "written" ELSE "raised"
  /\ log' = Append(log, "write_nud")
  /\ UNCHANGED <<input, bad_data, nr, ret, mainvars>>

ReadNudCall ==
  /\ pc \in {"start", "written"}
  /\ LET r == read_nud(data)
     IN  /\ ret' = [nud |-> r.nud, line |-> r.line]
         /\ exc' = r.exc
         /\ pc' = IF r.exc = "none" THEN "read" ELSE "raised"
  /\ log' = Append(log, "read_nud")
  /\ UNCHANGED <<data, input, bad_data, nr, arg, mainvars>>

NextNud == WriteNudCall \/ ReadNudCall

SpecNud == InitNud /\ [][NextNud]_vars

\* C5: after write_nud(document, n) on a Document that holds a count header,
\* the rewritten line is still a count header and read_nud returns n.
C5_HeaderRoundTrip ==
  /\ pc = "written" => search("nud", data[First("nud", input) + 1])
  /\ (Len(log) = 2 /\ log[1] = "write_nud") => (exc = "none" /\ ret.nud = arg)

\* C10: on a Document without a count header, read_nud completes without
\* raising and returns an absent count and an absent line.
C10_ReadAbsentHeader ==
  (log = <<"read_nud">> /\ ~Found("nud", input))
    => (exc = "none" /\ ret = [nud |-> None, line |-> None])

(***************************************************************************)
(* The domain patterns on a name (test_3_regexes)                          *)
(***************************************************************************)
RECURSIVE Join(_)
\* ".".join(labels)
Join(labels) ==
  IF Len(labels) = 1 THEN labels[1]
  ELSE labels[1] \o "." \o Join(Tail(labels))

InitRegex ==
  /\ pc = "start"
  /\ arg \in UNION {[1..k -> LabelPool] : k \in 1..MaxLabels}
  /\ data = <<>>
  /\ input = <<>>
  /\ bad_data = <<>>
  /\ nr = 0
  /\ ret = None
  /\ exc = "none"
  /\ log = <<>>
  /\ NoMain

\* prog = re.compile(rf"^{patterns('d')}$"); prog.fullmatch(name)
is_match(p, name) == FullMatch(Cat(<<Bol, patterns(p), Eol>>), name)

RegexTest ==
  /\ pc = "start"
  /\ ret' = [d |-> is_match("d", Join(arg)), d2 |-> is_match("d2", Join(arg))]
  /\ pc' = "tested"
  /\ UNCHANGED <<data, input, bad_data, nr, exc, arg, log, mainvars>>

NextRegex == RegexTest

SpecRegex == InitRegex /\ [][NextRegex]_vars

NoEdgeHyphen(l) == At(l, 1) # "-" /\ At(l, Len(l)) # "-"

\* a label of 1-63 characters over [a-z0-9-] that neither starts nor ends with -
IsPlainLabel(l) ==
  Len(l) \in 1..63 /\ CharsOf(l) \subseteq LDH /\ NoEdgeHyphen(l)

\* a label of 1-63 characters over [a-z0-9-_] that contains _ and neither
\* starts nor ends with -
IsUnderscoreLabel(l) ==
  /\ Len(l) \in 1..63
  /\ CharsOf(l) \subseteq LDHU
  /\ "_" \in CharsOf(l)
  /\ NoEdgeHyphen(l)

\* a valid final label: 2-63 characters over [a-z0-9-], not all digits
IsFinalLabel(l) ==
  /\ Len(l) \in 2..63
  /\ CharsOf(l) \subseteq LDH
  /\ NoEdgeHyphen(l)
  /\ ~(CharsOf(l) \subseteq Digit)

\* C7 as stated: a name L.T whose single non-final label holds an underscore
\* is rejected by domain and accepted by domain2.
C7_UnderscoreAccepted ==
  (/\ pc = "tested"
   /\ Len(arg) = 2
   /\ IsUnderscoreLabel(arg[1])
   /\ IsFinalLabel(arg[2]))
  => (~ret.d /\ ret.d2)

\* C7 as amended: a name L.T whose single non-final label holds an underscore
\* is rejected by domain and by domain2 as well; domain2 accepts the
\* underscore label only when an underscore-free label follows it before the
\* final label: L.M.T is rejected by domain and accepted by domain2.
C7_UnderscoreNeedsPlainLabel ==
  pc = "tested" =>
    /\ (Len(arg) = 2 /\ IsUnderscoreLabel(arg[1]) /\ IsFinalLabel(arg[2]))
         => (~ret.d /\ ~ret.d2)
    /\ (/\ Len(arg) = 3
        /\ IsUnderscoreLabel(arg[1])
        /\ IsPlainLabel(arg[2])
        /\ IsFinalLabel(arg[3]))
         => (~ret.d /\ ret.d2)

C7_Witness ==
  /\ pc = "tested"
  /\ arg = <<"my_host", "com">>
  /\ ~ret.d2

(***************************************************************************)
(* main                                                                    *)
(***************************************************************************)
hosts == "/etc/hosts"
hosts_latest == "hosts_latest"
\* os.path.join(database, f"{basename}-{hdate}"), one path per run
database == "hosts/hosts-<hdate>"

\* the Documents main may read: MainTemplate with any of its lines left out
RECURSIVE SubSeqs(_)
SubSeqs(t) ==
  IF t = <<>> THEN {<<>>}
  ELSE LET rest == SubSeqs(Tail(t))
       IN  rest \cup {<<Head(t)>> \o r : r \in rest}

MainDocs == SubSeqs(MainTemplate)

Init ==
  /\ pc = "read"
  /\ data = <<>>
  /\ input = <<>>
  /\ bad_data = <<>>
  /\ nr = 0
  /\ ret = None
  /\ exc = "none"
  /\ arg \in [allow : Allows]
  /\ log = <<>>
  /\ hdate = None
  /\ nc = None
  /\ answer = None
  /\ files \in {<<>>} \cup [{hosts} -> SystemHosts]

Raise(e) == pc' = "raised" /\ exc' = e

Step(name, next) == pc' = next /\ log' = Append(log, name)

\* lines 75-87: get_hosts_file(url) or read_hosts_file(args.file[0])
ReadData ==
  /\ pc = "read"
  /\ \/ /\ data' \in MainDocs
        /\ input' = data'
        /\ Step("read", "date")
        /\ UNCHANGED exc
     \/ /\ \E e \in {"RequestException", "OSError"} : Raise(e)
        /\ UNCHANGED <<data, input, log>>
  /\ UNCHANGED <<bad_data, nr, ret, arg, hdate, nc, answer, files>>

\* lines 89-91: hdate, pdate = get_hosts_date(data)
GetHostsDate ==
  /\ pc = "date"
  /\ LET r == get_hosts_date(data)
     IN  IF r.exc = "none"
         THEN hdate' = r.fdate /\ Step("date", "uptodate") /\ UNCHANGED exc
         ELSE Raise(r.exc) /\ UNCHANGED <<hdate, log>>
  /\ UNCHANGED <<data, input, bad_data, nr, ret, arg, nc, answer, files>>

\* lines 93-97: exit(0) when the system hosts file (if there is one) is as recent
CheckUpToDate ==
  /\ pc = "uptodate"
  /\ IF hosts \notin DOMAIN files
     THEN Step("uptodate", "calculate") /\ UNCHANGED exc
     ELSE LET r == get_hosts_date(files[hosts])
          IN  IF r.exc # "none" THEN Raise(r.exc) /\ UNCHANGED log
              ELSE IF hdate <= r.fdate
                   THEN pc' = "exit" /\ UNCHANGED <<exc, log>>
                   ELSE Step("uptodate", "calculate") /\ UNCHANGED exc
  /\ UNCHANGED <<data, input, bad_data, nr, ret, arg, hdate, nc, answer, files>>

\* lines 99-100: nc = calculate_nud(data)
CalculateNud ==
  /\ pc = "calculate"
  /\ nc' = calculate_nud(data)
  /\ Step("calculate_nud", "read_nud")
  /\ UNCHANGED <<data, input, bad_data, nr, ret, exc, arg, hdate, answer, files>>

\* lines 102-115: nr, line = read_nud(data), and the counts printed
ReadNud ==
  /\ pc = "read_nud"
  /\ LET r == read_nud(data)
     IN  IF r.exc = "none"
         THEN /\ ret' = [nud |-> r.nud, line |-> r.line]
              /\ Step("read_nud", "allow")
              /\ UNCHANGED exc
         ELSE Raise(r.exc) /\ UNCHANGED <<ret, log>>
  /\ UNCHANGED <<data, input, bad_data, nr, arg, hdate, nc, answer, files>>

\* lines 117-119: allow_sites(data, args.allow)
AllowSites ==
  /\ pc = "allow"
  /\ IF arg.allow = <<>>
     THEN Step("allow_sites", "check") /\ UNCHANGED <<data, exc>>
     ELSE LET r == allow_sites(data, arg.allow)
          IN  IF r.exc = "none"
              THEN data' = r.data /\ Step("allow_sites", "check") /\ UNCHANGED exc
              ELSE Raise(r.exc) /\ UNCHANGED <<data, log>>
  /\ UNCHANGED <<input, bad_data, nr, ret, arg, hdate, nc, answer, files>>

\* lines 121-122: bad_data = get_bad_lines(data)
GetBadLines ==
  /\ pc = "check"
  /\ bad_data' = get_bad_lines(data)
  /\ Step("get_bad_lines", "clean")
  /\ UNCHANGED <<data, input, nr, ret, exc, arg, hdate, nc, answer, files>>

\* lines 124-129: clean_data, calculate_nud and write_nud when bad_data != []
CleanData ==
  /\ pc = "clean"
  /\ IF bad_data = <<>>
     THEN pc' = "prompt" /\ UNCHANGED <<data, bad_data, nr, exc, log>>
     ELSE LET c == clean_data(data, bad_data)
              w == write_nud(c.data, calculate_nud(c.data))
          IN  /\ bad_data' = c.bad_data
              /\ nr' = c.nr
              /\ data' = w.data
              /\ IF w.exc = "none"
                 THEN /\ pc' = "prompt"
                      /\ log' = log \o <<"clean_data", "write_nud">>
                      /\ UNCHANGED exc
                 ELSE Raise(w.exc) /\ log' = Append(log, "clean_data")
  /\ UNCHANGED <<input, ret, arg, hdate, nc, answer, files>>

\* line 134: the prompt; lines 165-166 when the answer is not y or yes
Prompt ==
  /\ pc = "prompt"
  /\ \E a \in Answers :
       /\ answer' = a
       /\ IF Confirmed(a)
          THEN Step("confirm", "restore")
          ELSE pc' = "done" /\ UNCHANGED log
  /\ UNCHANGED <<data, input, bad_data, nr, ret, exc, arg, hdate, nc, files>>

\* lines 135-136: restore_org_le(data)
RestoreLoopback ==
  /\ pc = "restore"
  /\ LET r == restore_org_le(data)
     IN  /\ data' = r.data
         /\ IF r.exc = "none"
            THEN Step("restore_org_le", "save_db") /\ UNCHANGED exc
            ELSE Raise(r.exc) /\ UNCHANGED log
  /\ UNCHANGED <<input, bad_data, nr, ret, arg, hdate, nc, answer, files>>

\* save_hosts("\n".join(data)+"\n", path): the file holds the Document, or the
\* open or the write fails
SaveHosts(path, name, next) ==
  \/ /\ files' = [f \in DOMAIN files \cup {path} |-> IF f = path THEN data ELSE files[f]]
     /\ Step(name, next)
     /\ UNCHANGED exc
  \/ Raise("OSError") /\ UNCHANGED <<files, log>>

\* lines 138-142: save to the hosts database
SaveDatabase ==
  /\ pc = "save_db"
  /\ SaveHosts(database, "save_db", "save_latest")
  /\ UNCHANGED <<data, input, bad_data, nr, ret, arg, hdate, nc, answer>>

\* lines 144-146: save to hosts_latest
SaveLatest ==
  /\ pc = "save_latest"
  /\ SaveHosts(hosts_latest, "save_latest", "update")
  /\ UNCHANGED <<data, input, bad_data, nr, ret, arg, hdate, nc, answer>>

\* lines 148-154: sudo cp hosts_latest /etc/hosts, its CalledProcessError
\* caught, and then the bare raise of line 154, which stands after the try
\* statement and not in its except clause: with no exception being handled it
\* raises RuntimeError, whether cp succeeded or not.  Lines 156-164 (the
\* restart of NetworkManager and "Completed.") are never reached.
UpdateSystemHosts ==
  /\ pc = "update"
  /\ \/ /\ files' = [files EXCEPT ![hosts] = files[hosts_latest]]
        /\ log' = Append(log, "cp")
     \/ /\ UNCHANGED files
        /\ log' = Append(log, "cp_failed")
  /\ Raise("RuntimeError")
  /\ UNCHANGED <<data, input, bad_data, nr, ret, arg, hdate, nc, answer>>

Next ==
  \/ ReadData
  \/ GetHostsDate
  \/ CheckUpToDate
  \/ CalculateNud
  \/ ReadNud
  \/ AllowSites
  \/ GetBadLines
  \/ CleanData
  \/ Prompt
  \/ RestoreLoopback
  \/ SaveDatabase
  \/ SaveLatest
  \/ UpdateSystemHosts

Spec == Init /\ [][Next]_vars

\* the steps main completes before it copies onto the live hosts file
BeforeRepair ==
  <<"read", "date", "uptodate", "calculate_nud", "read_nud", "allow_sites",
    "get_bad_lines">>

\* the repair and the header rewrite, run when get_bad_lines flagged a line
Repair == <<"clean_data", "write_nud">>

AfterRepair == <<"confirm", "restore_org_le", "save_db", "save_latest">>

\* the operator typed y or yes, in any case
IsYes(a) == lower(a) \in {"y", "yes"}

\* cp onto the live hosts file was run, or the file no longer holds what it
\* held when main started
LiveWritten ==
  \/ \E i \in DOMAIN log : log[i] \in {"cp", "cp_failed"}
  \/ hosts \in DOMAIN files /\ files[hosts] \notin SystemHosts

\* C6: the copy onto the live hosts file happens only after the operator
\* answered y/yes and after date parsing, counting, get_bad_lines, the repair
\* and header rewrite (when a line was flagged), restore_org_le and both saves
\* completed without error; when a step before it raised, or the operator
\* answered anything else, the live hosts file is never written.
C6_CopyOnlyAfterAll ==
  /\ LiveWritten =>
       /\ IsYes(answer)
       /\ SubSeq(log, 1, Len(log) - 1) \in
            {BeforeRepair \o AfterRepair, BeforeRepair \o Repair \o AfterRepair}
  /\ (pc = "done" \/ pc = "exit") => ~LiveWritten
  /\ (pc = "raised" /\ exc # "RuntimeError") => ~LiveWritten

C6_Witness ==
  /\ hosts \in DOMAIN files
  /\ files[hosts] = data
  /\ log = BeforeRepair \o Repair \o AfterRepair \o <<"cp">>
  /\ answer = "YES"

\* C9: a run in which the operator confirmed, both saves succeeded and the copy
\* onto the live hosts file succeeded ends with NetworkManager restarted and
\* "Completed." printed, without an exception.
C9_RestartFollowsCopy ==
  (pc \in {"raised", "done", "exit"} /\ "cp" \in Range(log))
    => ("restart" \in Range(log) /\ exc = "none")

=============================================================================
